---- MODULE Spec2Model ----
(***************************************************************************)
(* watermarkGo: the watermark compositor (controller.go) and the HTTP      *)
(* handler that serves the two watermarked images.                         *)
(*                                                                         *)
(* Rasters are 8-bit premultiplied RGBA images (image.RGBA).  The three    *)
(* colour channels are treated alike by every operation of the program, so *)
(* a pixel is <<c, a>>: one colour channel and alpha.  Floating point      *)
(* configuration is kept as exact rationals: Opacity in percent, Scale in  *)
(* halves.                                                                 *)
(***************************************************************************)
EXTENDS Integers, Sequences, FiniteSets, TLC

VARIABLES
    \* ---- the compositor called on its own (SpecImage)
    op,          \* which function was called: "init" before the call
    baseImage,   \* the base image handed to the call
    wm,          \* the Watermark / TextWatermark the call was made on
    disk,        \* the files the call finds on disk
    imgType,     \* encodeImageToBase64's format tag
    ret,         \* what the call returned
    \* ---- the server (Spec)
    fs,          \* the files of the working directory
    pc,          \* per request: the handler's position
    open,        \* per request: the files it holds open
    loc,         \* per request: the handler's local variables
    resp         \* per request: its http.ResponseWriter

imgVars == <<op, baseImage, wm, disk, imgType, ret>>
srvVars == <<fs, pc, open, loc, resp>>
vars == <<op, baseImage, wm, disk, imgType, ret, fs, pc, open, loc, resp>>

\* ------------------------------------------------------------------ bounds
MaxDim == 2        \* base images and watermark bitmaps are 1..MaxDim wide and high
MaxOrigin == 1     \* a base image's Bounds().Min is in 0..MaxOrigin on each axis
NPatterns == 2     \* pixel contents an input image is drawn from
NReq == 2          \* requests in flight

\* ------------------------------------------------------- image.Rectangle
Rect(x0, y0, x1, y1) == [x0 |-> x0, y0 |-> y0, x1 |-> x1, y1 |-> y1]

ZR == Rect(0, 0, 0, 0)

Empty(r) == r.x0 >= r.x1 \/ r.y0 >= r.y1

Dx(r) == r.x1 - r.x0

Dy(r) == r.y1 - r.y0

Add(r, p) == Rect(r.x0 + p[1], r.y0 + p[2], r.x1 + p[1], r.y1 + p[2])

MaxOf(a, b) == IF a > b THEN a ELSE b

MinOf(a, b) == IF a < b THEN a ELSE b

Intersect(r, s) ==
    LET t == Rect(MaxOf(r.x0, s.x0), MaxOf(r.y0, s.y0),
                  MinOf(r.x1, s.x1), MinOf(r.y1, s.y1))
    IN IF Empty(t) THEN ZR ELSE t

Points(r) == IF Empty(r) THEN {} ELSE (r.x0 .. r.x1 - 1) \X (r.y0 .. r.y1 - 1)

In(p, r) == r.x0 <= p[1] /\ p[1] < r.x1 /\ r.y0 <= p[2] /\ p[2] < r.y1

\* Go's integer division truncates toward zero; \div floors.
Quo(a, b) == IF a >= 0 THEN a \div b ELSE -((-a) \div b)

\* ------------------------------------------------------------ image.RGBA
Transparent == <<0, 0>>

NewRGBA(r) == [b |-> r, pix |-> [p \in Points(r) |-> Transparent]]

NoImage == NewRGBA(ZR)

\* The pixels an input image is made of: transparent, opaque, translucent.
Palette == << <<0, 0>>, <<255, 255>>, <<64, 128>>, <<10, 255>> >>

\* A decoded JPEG k of size w x h: opaque, starting at (0,0).
JpegImage(k, w, h) ==
    [b |-> Rect(0, 0, w, h),
     pix |-> [p \in Points(Rect(0, 0, w, h)) |->
                << <<255, 10, 130>>[((k * p[1] + p[2]) % 3) + 1], 255 >>]]

\* Input image k with bounds r: its pixel at column i, row j of the image.
PatternImage(k, r) ==
    [b |-> r,
     pix |-> [p \in Points(r) |->
                Palette[((k * (p[1] - r.x0) + (p[2] - r.y0) + k) % 4) + 1]]]

\* draw.Over of source pixel s on destination pixel d under mask alpha ma
\* (16 bit), with image/draw's arithmetic:
\*     a := (m - (sa * ma / m)) * 0x101;  d = uint8((d*a + sr*ma) / m >> 8)
\* where m = 0xffff = 0x101 * 255, sr = s.c * 0x101 and sa = s.a * 0x101.  The
\* factor 0x101 is cancelled from each quotient, which leaves its value as it
\* is and keeps the products within TLC's integers.
Over(d, s, ma) ==
    LET a == 65535 - ((s[2] * ma) \div 255)
    IN << ((d[1] * a + s[1] * ma) \div 255) \div 256,
          ((d[2] * a + s[2] * ma) \div 255) \div 256 >>

\* The rectangle draw.DrawMask writes: r clipped to dst and to src moved so
\* that sp falls on r.Min.
ClipRect(dst, r, src, sp) ==
    Intersect(Intersect(r, dst.b), Add(src.b, <<r.x0 - sp[1], r.y0 - sp[2]>>))

\* draw.DrawMask(dst, r, src, sp, uniform mask of alpha ma, image.Point{}, draw.Over)
DrawMask(dst, r, src, sp, ma) ==
    LET c == ClipRect(dst, r, src, sp)
    IN [b |-> dst.b,
        pix |-> [p \in Points(dst.b) |->
                   IF In(p, c) /\ ~Empty(c)
                   THEN Over(dst.pix[p],
                             src.pix[<<p[1] - r.x0 + sp[1], p[2] - r.y0 + sp[2]>>],
                             ma)
                   ELSE dst.pix[p]]]

\* draw.Draw(dst, r, src, sp, draw.Over): DrawMask with no mask.
Draw(dst, r, src, sp) == DrawMask(dst, r, src, sp, 65535)

\* --------------------------------------------------------------- files
WatermarkPath == "FG-copyright-mini.png"
Image1Path == "image.jpg"
Image2Path == "zerkalo-ozera.jpg"
FontPath == "Nunito-Medium.ttf"
TemplatePath == "templates/images.html"

ImagePaths == {WatermarkPath, Image1Path, Image2Path}

Paths == ImagePaths \cup {FontPath, TemplatePath}

\* A file: absent, present but not decodable, or holding data: an image, or a
\* template's nodes.
File(status, data) == [status |-> status, data |-> data]

MissingFile == File("missing", NoImage)

CorruptFile == File("corrupt", NoImage)

\* os.Open
CanOpen(f) == f.status # "missing"

\* png.Decode, image.Decode, gg's font parser, template.ParseFiles
CanDecode(f) == f.status = "ok"

\* -------------------------------------------------------- configuration
\* BaseWatermark with the zero value in every field but Opacity.
Style(opacity) ==
    [Opacity |-> opacity, Color |-> 0, Font |-> "", Size |-> 0, Rotate |-> 0]

\* Watermark{BaseWatermark, Path, Scale}; Scale in halves.
Watermark(style, path, scale) ==
    [Opacity |-> style.Opacity, Color |-> style.Color, Font |-> style.Font,
     Size |-> style.Size, Rotate |-> style.Rotate,
     Path |-> path, Scale |-> scale, Text |-> 0]

\* TextWatermark{BaseWatermark, Text}
TextWatermark(style, text) ==
    [Opacity |-> style.Opacity, Color |-> style.Color, Font |-> style.Font,
     Size |-> style.Size, Rotate |-> style.Rotate,
     Path |-> "", Scale |-> 2, Text |-> text]

\* ------------------------------------------------------- resize.Resize
\* nfnt/resize: a zero width or height is derived from the other side, keeping
\* the aspect ratio; both zero, or the image's own size, returns the image
\* itself.  The new raster starts at (0,0); its pixels are sampled from the
\* source (the bilinear kernel's weights are not modelled).
Resize(width, height, img) ==
    LET ow == Dx(img.b)
        oh == Dy(img.b)
        w1 == IF width # 0 THEN width
              ELSE IF height = 0 THEN ow
              ELSE (7 * oh + 10 * ow * height) \div (10 * oh)
        h1 == IF height # 0 THEN height
              ELSE IF width = 0 THEN oh
              ELSE (7 * ow + 10 * oh * width) \div (10 * ow)
        r  == Rect(0, 0, w1, h1)
    IN IF (w1 = ow /\ h1 = oh) \/ ow <= 0 \/ oh <= 0 THEN img
       ELSE [b |-> r,
             pix |-> [p \in Points(r) |->
                        img.pix[<<img.b.x0 + (p[1] * ow) \div w1,
                                  img.b.y0 + (p[2] * oh) \div h1>>]]]

\* ------------------------------------------------ Watermark.ApplyToImage
\* result := image.NewRGBA(bounds); draw.Draw(result, bounds, baseImage, image.Point{}, draw.Over)
CopyBaseAtOrigin(base) ==
    Draw(NewRGBA(Rect(0, 0, Dx(base.b), Dy(base.b))), base.b, base, <<0, 0>>)

CopyBase(base) == Draw(NewRGBA(base.b), base.b, base, <<0, 0>>)

\* if w.Scale != 1 { ... resize.Resize(newWidth, newHeight, ...) }
ScaleWatermark(w, img) ==
    IF w.Scale # 2
    THEN Resize((Dx(img.b) * w.Scale) \div 2, (Dy(img.b) * w.Scale) \div 2, img)
    ELSE img

\* offset := image.Point{X: (bounds.Dx() - wm.Dx()) / 2, Y: (bounds.Dy() - wm.Dy()) / 2}
CenterOffset(bounds, wb) ==
    << Quo(Dx(bounds) - Dx(wb), 2), Quo(Dy(bounds) - Dy(wb), 2) >>

\* The rectangle handed to the second draw.Draw: watermarkImage.Bounds().Add(offset)
WatermarkRect(bounds, wb) == Add(wb, CenterOffset(bounds, wb))

\* draw.Draw(result, watermarkImage.Bounds().Add(offset), watermarkImage, image.Point{}, draw.Over)
\* The BaseWatermark fields of w take no part.
OverlayMaskAlphaFromOpacity(w) == (w.Opacity * 65535) \div 100

OverlayMaskAlpha(w) == 65535

Overlay(w, result, wimg) ==
    DrawMask(result, WatermarkRect(result.b, wimg.b), wimg, <<0, 0>>,
             OverlayMaskAlpha(w))

\* What a call returns: the image, or a panic; with the files it touched and
\* the rectangle it drew the watermark in.
Returned(img, files, placed, written) ==
    [panic |-> FALSE, img |-> img, files |-> files, placed |-> placed,
     written |-> written, str |-> <<>>]

Panicked(files) ==
    [panic |-> TRUE, img |-> NoImage, files |-> files, placed |-> ZR,
     written |-> ZR, str |-> <<>>]

NoReturn == Returned(NoImage, {}, ZR, ZR)

ApplyToImage(w, base, files) ==
    LET result == CopyBase(base)
    IN IF w.Path = "" THEN Returned(result, {}, ZR, ZR)
       ELSE IF ~CanOpen(files[w.Path]) THEN Panicked({w.Path})
       ELSE IF ~CanDecode(files[w.Path]) THEN Panicked({w.Path})
       ELSE LET wimg == ScaleWatermark(w, files[w.Path].data)
                rect == WatermarkRect(result.b, wimg.b)
            IN Returned(Overlay(w, result, wimg), {w.Path}, rect,
                        ClipRect(result, rect, wimg, <<0, 0>>))

\* ------------------------------------------- TextWatermark.CreateImage
\* What the rasteriser leaves at column i, row j of the canvas: the glyph
\* coverage there (none, an antialiased edge, full), which depends on the
\* text and its rotation, in the text's colour.
GlyphPixel(t, i, j) ==
    LET cov == <<0, 128, 255>>[((t.Text + i + 2 * j + (t.Rotate \div 100)) % 3) + 1]
    IN << (t.Color * cov) \div 255, cov >>

\* gg.NewContext(int(width), int(height)), cleared to transparent, the text
\* drawn anchored at the centre; panics when the font cannot be loaded.
CreateImage(t, width, height, files) ==
    IF ~CanOpen(files[t.Font]) \/ ~CanDecode(files[t.Font]) THEN Panicked({t.Font})
    ELSE LET r == Rect(0, 0, width, height)
         IN Returned([b |-> r, pix |-> [p \in Points(r) |-> GlyphPixel(t, p[1], p[2])]],
                     {t.Font}, ZR, ZR)

\* --------------------------------- TextWatermark.CreateWatermarkedImage
\* &image.Uniform{color.Alpha{uint8(255 * w.Opacity)}}: the mask's 16-bit alpha
TextMaskAlpha(t) == ((255 * t.Opacity) \div 100) * 257

\* result := image.NewRGBA(baseImage.Bounds()); draw.Draw(result, baseImage.Bounds(), baseImage, image.Point{}, draw.Over)
CopyBaseForText(base) == Draw(NewRGBA(base.b), base.b, base, <<0, 0>>)

CreateWatermarkedImage(t, base, files) ==
    LET textImage == CreateImage(t, Dx(base.b), Dy(base.b), files)
        result == CopyBaseForText(base)
    IN IF textImage.panic THEN textImage
       ELSE Returned(DrawMask(result, result.b, textImage.img, <<0, 0>>, TextMaskAlpha(t)),
                     textImage.files, result.b,
                     ClipRect(result, result.b, textImage.img, <<0, 0>>))

\* -------------------------------------------------- encodeImageToBase64
\* The pixels of img in row order, one value per pixel.
RECURSIVE RowBytes(_, _, _)
RowBytes(img, x, y) ==
    IF Empty(img.b) \/ y >= img.b.y1 THEN <<>>
    ELSE IF x >= img.b.x1 THEN RowBytes(img, img.b.x0, y + 1)
    ELSE <<img.pix[<<x, y>>][1]>> \o RowBytes(img, x + 1, y)

\* jpeg.Encode: the SOI marker, the frame's size, the (lossy) samples, EOI.
JpegEncode(img) ==
    <<255, 216, Dx(img.b), Dy(img.b)>>
        \o [i \in 1..Len(RowBytes(img, img.b.x0, img.b.y0)) |->
              (RowBytes(img, img.b.x0, img.b.y0)[i] \div 16) * 16]
        \o <<255, 217>>

\* png.Encode: the signature's first bytes, the size, the samples.
PngEncode(img) ==
    <<137, 80, Dx(img.b), Dy(img.b)>> \o RowBytes(img, img.b.x0, img.b.y0)

\* base64.StdEncoding.EncodeToString: the alphabet's indices, 64 for '='.
RECURSIVE Base64(_)
Base64(bytes) ==
    IF Len(bytes) = 0 THEN <<>>
    ELSE IF Len(bytes) = 1
    THEN <<bytes[1] \div 4, (bytes[1] % 4) * 16, 64, 64>>
    ELSE IF Len(bytes) = 2
    THEN <<bytes[1] \div 4, (bytes[1] % 4) * 16 + bytes[2] \div 16,
           (bytes[2] % 16) * 4, 64>>
    ELSE <<bytes[1] \div 4, (bytes[1] % 4) * 16 + bytes[2] \div 16,
           (bytes[2] % 16) * 4 + bytes[3] \div 64, bytes[3] % 64>>
         \o Base64(SubSeq(bytes, 4, Len(bytes)))

\* switch imgType { case "jpeg": ...; case "png": ... }: what is in buff after it
EncodeBufferDefaultPng(img, tag) ==
    IF tag = "jpeg" THEN JpegEncode(img) ELSE PngEncode(img)

EncodeBuffer(img, tag) ==
    IF tag = "jpeg" THEN JpegEncode(img)
    ELSE IF tag = "png" THEN PngEncode(img)
    ELSE <<>>

encodeImageToBase64(img, tag) == Base64(EncodeBuffer(img, tag))

\* ------------------------------------------------------ http.ResponseWriter
Chunk(kind, data) == [kind |-> kind, data |-> data]

NewResponse ==
    [wroteHeader |-> FALSE, status |-> 0, header |-> "", contentType |-> "",
     body |-> <<>>]

\* w.Header().Set("Content-Type", v)
SetContentType(w, v) == [w EXCEPT !.header = v]

\* w.WriteHeader(code): the status line and the headers go out once; a second
\* call is ignored.
WriteHeader(w, code) ==
    IF w.wroteHeader THEN w
    ELSE [w EXCEPT !.wroteHeader = TRUE, !.status = code, !.contentType = w.header]

\* w.Write(data): sends the header with 200 first if none was sent.
Write(w, chunk) ==
    LET h == WriteHeader(w, 200)
    IN [h EXCEPT !.body = Append(h.body, chunk)]

\* http.Error(w, msg, code)
HttpError(w, msg, code) ==
    Write(WriteHeader(SetContentType(w, "text/plain; charset=utf-8"), code),
          Chunk(msg, <<>>))

\* ------------------------------------------------ handleWatermarkedImages
\* imageWatermark := &Watermark{BaseWatermark{Opacity: 0.6}, Path, Scale: 1.0}
imageWatermark == Watermark(Style(60), WatermarkPath, 2)

\* textWatermark := &TextWatermark{BaseWatermark{0.6, color, font, 35, -29.5}, Text}
textWatermark ==
    TextWatermark([Opacity |-> 60, Color |-> 239, Font |-> FontPath,
                   Size |-> 35, Rotate |-> -295], 1)

\* One request's handler: its position, the files it holds open, its locals
\* and its response writer.
Handler(p, o, l, w) == [pc |-> p, open |-> o, loc |-> l, resp |-> w]

NewLocals ==
    [baseImage1 |-> NoImage, watermarkedImage1 |-> NoImage,
     baseImage2 |-> NoImage, watermarkedImage2 |-> NoImage,
     base64_1 |-> <<>>, base64_2 |-> <<>>, node |-> 0]

NewHandler == Handler("start", {}, NewLocals, NewResponse)

\* The deferred Close calls run when the function returns or panics.
RunDeferredLeak(o) == o

RunDeferred(o) == {}

\* panic(err): the deferred calls run, net/http recovers and drops the
\* connection; nothing is written.
Panic(h) == [h EXCEPT !.pc = "panicked", !.open = RunDeferred(h.open)]

\* srcImgFile1, err := os.Open("image.jpg"); defer srcImgFile1.Close()
StepOpenImage1(h, files) ==
    IF CanOpen(files[Image1Path])
    THEN [h EXCEPT !.pc = "opened1", !.open = h.open \cup {Image1Path}]
    ELSE Panic(h)

\* baseImage1, _, err := image.Decode(srcImgFile1)
StepDecodeImage1(h, files) ==
    IF CanDecode(files[Image1Path])
    THEN [h EXCEPT !.pc = "decoded1", !.loc.baseImage1 = files[Image1Path].data]
    ELSE Panic(h)

\* ApplyToImage: watermarkFile, err := os.Open(w.Path); defer watermarkFile.Close()
StepOpenWatermark(h, files) ==
    IF CanOpen(files[imageWatermark.Path])
    THEN [h EXCEPT !.pc = "wmOpened", !.open = h.open \cup {imageWatermark.Path}]
    ELSE Panic(h)

\* ApplyToImage: watermarkImage, err := png.Decode(watermarkFile)
StepDecodeWatermark(h, files) ==
    IF CanDecode(files[imageWatermark.Path])
    THEN [h EXCEPT !.pc = "wmDecoded"]
    ELSE Panic(h)

\* ApplyToImage draws and returns: its deferred Close runs.
StepApplyToImage(h, files) ==
    [h EXCEPT !.pc = "applied",
              !.loc.watermarkedImage1 =
                  ApplyToImage(imageWatermark, h.loc.baseImage1, files).img,
              !.open = h.open \ {imageWatermark.Path}]

\* srcImgFile2, err := os.Open("zerkalo-ozera.jpg"); defer srcImgFile2.Close()
StepOpenImage2(h, files) ==
    IF CanOpen(files[Image2Path])
    THEN [h EXCEPT !.pc = "opened2", !.open = h.open \cup {Image2Path}]
    ELSE Panic(h)

\* baseImage2, _, err := image.Decode(srcImgFile2)
StepDecodeImage2(h, files) ==
    IF CanDecode(files[Image2Path])
    THEN [h EXCEPT !.pc = "decoded2", !.loc.baseImage2 = files[Image2Path].data]
    ELSE Panic(h)

\* watermarkedImage2 := textWatermark.CreateWatermarkedImage(baseImage2)
StepCreateWatermarkedImage(h, files) ==
    LET r == CreateWatermarkedImage(textWatermark, h.loc.baseImage2, files)
    IN IF r.panic THEN Panic(h)
       ELSE [h EXCEPT !.pc = "texted", !.loc.watermarkedImage2 = r.img]

\* the two encodeImageToBase64(..., "jpeg") calls
StepEncode(h) ==
    [h EXCEPT !.pc = "encoded",
              !.loc.base64_1 = encodeImageToBase64(h.loc.watermarkedImage1, "jpeg"),
              !.loc.base64_2 = encodeImageToBase64(h.loc.watermarkedImage2, "jpeg")]

\* tmpl, err := template.ParseFiles("templates/images.html")
StepParseFiles(h, files) ==
    IF CanOpen(files[TemplatePath]) /\ CanDecode(files[TemplatePath])
    THEN [h EXCEPT !.pc = "parsed"]
    ELSE [h EXCEPT !.pc = "returning",
                   !.resp = HttpError(h.resp, "Error loading template", 500)]

\* w.Header().Set("Content-Type", "text/html; charset=utf-8")
StepSetHeader(h) ==
    [h EXCEPT !.pc = "executing", !.loc.node = 1,
              !.resp = SetContentType(h.resp, "text/html; charset=utf-8")]

\* tmpl.Execute(w, data), one node of the template at a time: a text node and
\* a field of data are written to w as they are reached; a node that cannot be
\* evaluated ends Execute with an error, and the handler calls http.Error.
StepExecuteNode(h, files) ==
    LET nodes == files[TemplatePath].data
        kind  == nodes[h.loc.node]
        next  == IF h.loc.node = Len(nodes) THEN "returning" ELSE "executing"
        data  == IF kind = "Image1" THEN h.loc.base64_1
                 ELSE IF kind = "Image2" THEN h.loc.base64_2
                 ELSE <<>>
    IN IF kind = "Missing"
       THEN [h EXCEPT !.pc = "returning",
                      !.resp = HttpError(h.resp, "Error executing template", 500)]
       ELSE [h EXCEPT !.pc = next, !.loc.node = h.loc.node + 1,
                      !.resp = Write(h.resp, Chunk(kind, data))]

\* the handler returns: the deferred srcImgFile2.Close(), srcImgFile1.Close()
StepReturn(h) == [h EXCEPT !.pc = "done", !.open = RunDeferred(h.open)]

Finished(h) == h.pc \in {"done", "panicked"}

\* The handler's next step.
HandlerStep(h, files) ==
    CASE h.pc = "start"     -> StepOpenImage1(h, files)
      [] h.pc = "opened1"   -> StepDecodeImage1(h, files)
      [] h.pc = "decoded1"  -> StepOpenWatermark(h, files)
      [] h.pc = "wmOpened"  -> StepDecodeWatermark(h, files)
      [] h.pc = "wmDecoded" -> StepApplyToImage(h, files)
      [] h.pc = "applied"   -> StepOpenImage2(h, files)
      [] h.pc = "opened2"   -> StepDecodeImage2(h, files)
      [] h.pc = "decoded2"  -> StepCreateWatermarkedImage(h, files)
      [] h.pc = "texted"    -> StepEncode(h)
      [] h.pc = "encoded"   -> StepParseFiles(h, files)
      [] h.pc = "parsed"    -> StepSetHeader(h)
      [] h.pc = "executing" -> StepExecuteNode(h, files)
      [] h.pc = "returning" -> StepReturn(h)
      [] OTHER              -> h

\* The handler run from its first line to its end with nothing else running.
RECURSIVE RunFrom(_, _)
RunFrom(h, files) == IF Finished(h) THEN h ELSE RunFrom(HandlerStep(h, files), files)

RunAlone(files) == RunFrom(NewHandler, files)

\* ------------------------------------------------------------ the server
Reqs == 1..NReq

\* What the files of the working directory may hold.
Image1Data == JpegImage(1, 2, 2)

Image2Data == JpegImage(2, 2, 1)

WatermarkData == PatternImage(2, Rect(0, 0, 1, 2))

\* templates/images.html: the two slots between text; one that names a field
\* data does not have, as its first node or after the first slot.
Templates ==
    { <<"text", "Image1", "text", "Image2", "text">>,
      <<"Missing", "text", "Image1", "text", "Image2">>,
      <<"text", "Image1", "Missing", "Image2", "text">> }

FileStates(data) == {MissingFile, CorruptFile, File("ok", data)}

Files(i1, w, i2, f, t) ==
    [p \in Paths |->
        IF p = Image1Path THEN i1
        ELSE IF p = WatermarkPath THEN w
        ELSE IF p = Image2Path THEN i2
        ELSE IF p = FontPath THEN f
        ELSE t]

DefaultFiles ==
    Files(File("ok", Image1Data), File("ok", WatermarkData), File("ok", Image2Data),
          File("ok", NoImage), File("ok", <<"text", "Image1", "text", "Image2", "text">>))

Environments ==
    { Files(i1, w, i2, f, t) :
        i1 \in FileStates(Image1Data), w \in FileStates(WatermarkData),
        i2 \in FileStates(Image2Data), f \in {MissingFile, File("ok", NoImage)},
        t \in {MissingFile, CorruptFile} \cup {File("ok", n) : n \in Templates} }

\* Request r's handler.
Local(r) == Handler(pc[r], open[r], loc[r], resp[r])

\* The handler's locals are its own: each request has its own set.
StoreLocalsShared(ls, r, l) == [q \in DOMAIN ls |-> l]

StoreLocals(ls, r, l) == [ls EXCEPT ![r] = l]

\* Request r's handler becomes h.
Store(r, h) ==
    /\ pc' = [pc EXCEPT ![r] = h.pc]
    /\ open' = [open EXCEPT ![r] = h.open]
    /\ loc' = StoreLocals(loc, r, h.loc)
    /\ resp' = [resp EXCEPT ![r] = h.resp]
    /\ UNCHANGED <<fs, op, baseImage, wm, disk, imgType, ret>>

ImgIdle ==
    /\ op = "init"
    /\ baseImage = NoImage
    /\ wm = imageWatermark
    /\ disk = DefaultFiles
    /\ imgType = ""
    /\ ret = NoReturn

Init ==
    /\ fs \in Environments
    /\ pc = [r \in Reqs |-> "start"]
    /\ open = [r \in Reqs |-> {}]
    /\ loc = [r \in Reqs |-> NewLocals]
    /\ resp = [r \in Reqs |-> NewResponse]
    /\ ImgIdle

OpenImage1(r) == pc[r] = "start" /\ Store(r, StepOpenImage1(Local(r), fs))

DecodeImage1(r) == pc[r] = "opened1" /\ Store(r, StepDecodeImage1(Local(r), fs))

OpenWatermark(r) == pc[r] = "decoded1" /\ Store(r, StepOpenWatermark(Local(r), fs))

DecodeWatermark(r) == pc[r] = "wmOpened" /\ Store(r, StepDecodeWatermark(Local(r), fs))

ApplyWatermark(r) == pc[r] = "wmDecoded" /\ Store(r, StepApplyToImage(Local(r), fs))

OpenImage2(r) == pc[r] = "applied" /\ Store(r, StepOpenImage2(Local(r), fs))

DecodeImage2(r) == pc[r] = "opened2" /\ Store(r, StepDecodeImage2(Local(r), fs))

ApplyText(r) == pc[r] = "decoded2" /\ Store(r, StepCreateWatermarkedImage(Local(r), fs))

Encode(r) == pc[r] = "texted" /\ Store(r, StepEncode(Local(r)))

ParseFiles(r) == pc[r] = "encoded" /\ Store(r, StepParseFiles(Local(r), fs))

SetHeader(r) == pc[r] = "parsed" /\ Store(r, StepSetHeader(Local(r)))

ExecuteNode(r) == pc[r] = "executing" /\ Store(r, StepExecuteNode(Local(r), fs))

Return(r) == pc[r] = "returning" /\ Store(r, StepReturn(Local(r)))

Next ==
    \E r \in Reqs :
        \/ OpenImage1(r)
        \/ DecodeImage1(r)
        \/ OpenWatermark(r)
        \/ DecodeWatermark(r)
        \/ ApplyWatermark(r)
        \/ OpenImage2(r)
        \/ DecodeImage2(r)
        \/ ApplyText(r)
        \/ Encode(r)
        \/ ParseFiles(r)
        \/ SetHeader(r)
        \/ ExecuteNode(r)
        \/ Return(r)

Spec == Init /\ [][Next]_vars

\* ------------------------------------------- the compositor on its own
Origins == (0..MaxOrigin) \X (0..MaxOrigin)

Sizes == (1..MaxDim) \X (1..MaxDim)

\* Any image.Image: its bounds need not start at (0,0).
BaseImages ==
    { PatternImage(k, Rect(o[1], o[2], o[1] + d[1], o[2] + d[2])) :
        k \in 1..NPatterns, o \in Origins, d \in Sizes }

\* A decoded PNG starts at (0,0).
WatermarkBitmaps ==
    { PatternImage(k, Rect(0, 0, d[1], d[2])) : k \in 1..NPatterns, d \in Sizes }

WatermarkFiles == {MissingFile, CorruptFile} \cup {File("ok", b) : b \in WatermarkBitmaps}

\* Scale 0.5, 1 and 2; with and without a path.
Watermarks ==
    { Watermark(Style(60), p, s) : p \in {"", WatermarkPath}, s \in {1, 2, 4} }

TextWatermarks ==
    { TextWatermark([Opacity |-> o, Color |-> 239, Font |-> FontPath,
                     Size |-> 35, Rotate |-> a], t) :
        o \in {0, 60, 100}, a \in {0, -295}, t \in {1, 2} }

SrvIdle ==
    /\ fs = DefaultFiles
    /\ pc = [r \in Reqs |-> "start"]
    /\ open = [r \in Reqs |-> {}]
    /\ loc = [r \in Reqs |-> NewLocals]
    /\ resp = [r \in Reqs |-> NewResponse]

ImageInit ==
    /\ op = "init"
    /\ baseImage \in BaseImages
    /\ wm = imageWatermark
    /\ disk = DefaultFiles
    /\ imgType = ""
    /\ ret = NoReturn
    /\ SrvIdle

CallApplyToImage ==
    /\ op = "init"
    /\ \E w \in Watermarks, f \in WatermarkFiles :
          /\ wm' = w
          /\ disk' = [disk EXCEPT ![WatermarkPath] = f]
          /\ ret' = ApplyToImage(w, baseImage, disk')
    /\ op' = "ApplyToImage"
    /\ UNCHANGED <<baseImage, imgType, fs, pc, open, loc, resp>>

CallCreateWatermarkedImage ==
    /\ op = "init"
    /\ \E t \in TextWatermarks, f \in {MissingFile, CorruptFile, File("ok", NoImage)} :
          /\ wm' = t
          /\ disk' = [disk EXCEPT ![FontPath] = f]
          /\ ret' = CreateWatermarkedImage(t, baseImage, disk')
    /\ op' = "CreateWatermarkedImage"
    /\ UNCHANGED <<baseImage, imgType, fs, pc, open, loc, resp>>

CallEncode ==
    /\ op = "init"
    /\ \E tag \in {"jpeg", "png", "gif", ""} :
          /\ imgType' = tag
          /\ ret' = [Returned(baseImage, {}, ZR, ZR) EXCEPT
                        !.str = encodeImageToBase64(baseImage, tag)]
    /\ op' = "encodeImageToBase64"
    /\ UNCHANGED <<baseImage, wm, disk, fs, pc, open, loc, resp>>

ImageNext == CallApplyToImage \/ CallCreateWatermarkedImage \/ CallEncode

SpecImage == ImageInit /\ [][ImageNext]_vars

\* ================================================================ claims
ErrorMessages == {"Error loading template", "Error executing template"}

\* http.Error was called on request r's writer.
ErrorReported(r) == \E i \in 1..Len(resp[r].body) : resp[r].body[i].kind \in ErrorMessages

HasChunk(r, kind) == \E i \in 1..Len(resp[r].body) : resp[r].body[i].kind = kind

\* C1: a request whose template could not be loaded or executed ends with a 500
\* response that carries the static message and nothing else: no part of the
\* document, no success status, no HTML content type.
C1_ErrorResponseIsClean ==
    \A r \in Reqs :
        (pc[r] = "done" /\ ErrorReported(r)) =>
            /\ resp[r].status = 500
            /\ Len(resp[r].body) = 1
            /\ resp[r].contentType # "text/html; charset=utf-8"

\* C2: a response is written only once both pipelines have completed, a
\* pipeline failure panics before anything is written, and no response holds
\* exactly one of the two images.
C2_BothImagesOrNothing ==
    \A r \in Reqs :
        /\ (resp[r].wroteHeader \/ resp[r].body # <<>>) =>
               pc[r] \in {"parsed", "executing", "returning", "done"}
        /\ pc[r] = "panicked" => (~resp[r].wroteHeader /\ resp[r].body = <<>>)
        /\ pc[r] = "done" => (HasChunk(r, "Image1") <=> HasChunk(r, "Image2"))

\* C3: with an empty Path, ApplyToImage returns the base image, bounds and
\* pixels, and touches no file.
C3_EmptyPathReturnsBase ==
    (op = "ApplyToImage" /\ wm.Path = "") =>
        /\ ~ret.panic
        /\ ret.img = baseImage
        /\ ret.files = {}

\* C4: with Opacity 0 and a font that loads, CreateWatermarkedImage returns the
\* base image, whatever the text and its rotation.
C4_ZeroOpacityReturnsBase ==
    (op = "CreateWatermarkedImage" /\ wm.Opacity = 0 /\ CanDecode(disk[FontPath])) =>
        /\ ~ret.panic
        /\ ret.img = baseImage

\* C5: with a Path, the watermark's top-left corner lies at
\* ((baseWidth - wmWidth)/2, (baseHeight - wmHeight)/2) from the base image's
\* top-left corner, and every pixel written lies inside the base's bounds.
C5_WatermarkIsCentred ==
    (op = "ApplyToImage" /\ wm.Path # "" /\ ~ret.panic) =>
        /\ ret.placed.x0 - baseImage.b.x0
              = Quo(Dx(baseImage.b) - Dx(ret.placed), 2)
        /\ ret.placed.y0 - baseImage.b.y0
              = Quo(Dy(baseImage.b) - Dy(ret.placed), 2)
        /\ Points(ret.written) \subseteq Points(baseImage.b)

\* C6: with Scale 1 the image ApplyToImage returns has the base image's bounds,
\* whether the watermark is smaller or larger than the base.
C6_ScaleOneKeepsBounds ==
    (op = "ApplyToImage" /\ wm.Scale = 2 /\ ~ret.panic) =>
        /\ ret.img.b = baseImage.b
        /\ DOMAIN ret.img.pix = Points(baseImage.b)

C6_Witness ==
    /\ op = "ApplyToImage" /\ wm.Scale = 2 /\ wm.Path # "" /\ ~ret.panic
    /\ Dx(ret.placed) > Dx(baseImage.b)
    /\ baseImage.b.x0 > 0
    /\ ret.img.b = baseImage.b

\* C7: a format tag other than "jpeg" and "png" gives the empty string, and no
\* panic, for any image.
C7_UnknownTagEncodesNothing ==
    (op = "encodeImageToBase64" /\ imgType \notin {"jpeg", "png"}) =>
        /\ ~ret.panic
        /\ ret.str = <<>>

C7_Witness ==
    /\ op = "encodeImageToBase64" /\ imgType = "gif"
    /\ Dx(baseImage.b) * Dy(baseImage.b) > 1
    /\ ret.str = <<>>
    /\ encodeImageToBase64(baseImage, "jpeg") # <<>>
    /\ encodeImageToBase64(baseImage, "png") # <<>>

\* C8: whatever the other requests do meanwhile, a request ends as it would
\* have ended running alone: same response or abort, same locals, no file
\* left open.
C8_OutcomeAsAlone ==
    \A r \in Reqs : Finished(Local(r)) => Local(r) = RunAlone(fs)

C8_Witness ==
    \E r, q \in Reqs :
        /\ pc[r] = "done" /\ resp[r].status = 200 /\ HasChunk(r, "Image2")
        /\ pc[q] = "executing" /\ resp[q].body # <<>>
        /\ Local(r) = RunAlone(fs)

\* C9 as stated: a file is open only while it is decoded, so a request never
\* holds two files and holds none while it encodes or renders.
C9_ClosedRightAfterDecode ==
    \A r \in Reqs :
        /\ Cardinality(open[r]) <= 1
        /\ pc[r] \in {"texted", "encoded", "parsed", "executing", "returning"} =>
               open[r] = {}

\* C9, amended: a file is closed when the function that opened it returns or
\* panics.  The watermark bitmap is open only inside ApplyToImage; a base image
\* stays open from its os.Open until the handler ends, so image.jpg is open
\* together with the bitmap and then with zerkalo-ozera.jpg, both base images
\* are open while the handler encodes and renders, and a finished request
\* holds no file.
C9_ClosedOnReturn ==
    \A r \in Reqs :
        /\ Cardinality(open[r]) <= 2
        /\ Finished(Local(r)) => open[r] = {}
        /\ WatermarkPath \in open[r] <=> pc[r] \in {"wmOpened", "wmDecoded"}
        /\ Image1Path \in open[r] <=> pc[r] \notin {"start", "done", "panicked"}
        /\ Image2Path \in open[r] <=>
               pc[r] \in {"opened2", "decoded2", "texted", "encoded", "parsed",
                          "executing", "returning"}

C9_Witness ==
    \E r, q \in Reqs :
        /\ pc[r] = "executing" /\ open[r] = {Image1Path, Image2Path}
        /\ pc[q] = "wmDecoded" /\ open[q] = {Image1Path, WatermarkPath}

\* The Watermark w with the BaseWatermark fields of s.
WithStyle(w, s) ==
    [w EXCEPT !.Opacity = s.Opacity, !.Color = s.Color, !.Font = s.Font,
              !.Size = s.Size, !.Rotate = s.Rotate]

OtherStyles ==
    { Style(0), Style(100),
      [Opacity |-> 30, Color |-> 239, Font |-> FontPath, Size |-> 35, Rotate |-> -295] }

\* C10: ApplyToImage returns the same image whatever Opacity, Color, Font, Size
\* and Rotate are, and each pixel it draws is the watermark's pixel laid over
\* the base's with the watermark pixel's own alpha as its only weight.
C10_StyleIsIgnored ==
    op = "ApplyToImage" =>
        /\ \A s \in OtherStyles :
              ApplyToImage(WithStyle(wm, s), baseImage, disk) = ret
        /\ \A p \in Points(ret.written) :
              ret.img.pix[p] =
                  Over(CopyBase(baseImage).pix[p],
                       ScaleWatermark(wm, disk[WatermarkPath].data)
                           .pix[<<p[1] - ret.placed.x0, p[2] - ret.placed.y0>>],
                       65535)

C10_Witness ==
    /\ op = "ApplyToImage" /\ wm.Path # "" /\ ~ret.panic /\ wm.Opacity = 60
    /\ \E p \in Points(ret.written) :
          /\ disk[WatermarkPath].data.pix[<<p[1] - ret.placed.x0, p[2] - ret.placed.y0>>]
                = <<64, 128>>
          /\ CopyBase(baseImage).pix[p] = <<255, 255>>
          /\ ret.img.pix[p] \notin {<<64, 128>>, <<255, 255>>}
    /\ ApplyToImage(WithStyle(wm, Style(0)), baseImage, disk) = ret

====
